---- MODULE Spec2Model ----
(***************************************************************************)
(* A model of the shielded-transaction demo: the Merkle accumulator        *)
(* (merkle_tree.rs), the commitment engine (commitment.rs), the proof      *)
(* helpers (zk_proof.rs), the transaction builder                          *)
(* (shielded_transaction.rs) and the storage (storage.rs).                 *)
(*                                                                         *)
(* Strings.  A hex digest is a record [len, val]: len is the length of the *)
(* string in characters and val stands for its content.  SHA-256 is        *)
(* modelled as a perfect (injective) hash: the content of a digest is the  *)
(* sequence of the pieces fed to the hasher, so two digests are equal      *)
(* exactly when the hashed inputs are.  The content <<"zeros">> stands for *)
(* a string made of the character '0' only.                                *)
(*                                                                         *)
(* Specifications.  The tree, the commitment engine, the proof helpers,    *)
(* the transaction builder and the storage share no state, and each is a   *)
(* specification of its own: SpecMerkle, SpecCommitment, SpecProofs,       *)
(* SpecTx and SpecStorage.  SpecVerify hands the tree's verifier arbitrary *)
(* proofs and indices; SpecBorrows runs add_leaf statement by statement    *)
(* next to a reader of the tree.                                           *)
(*                                                                         *)
(* Results.  A Rust Result is [tag |-> "Ok", val |-> v] or                 *)
(* [tag |-> "Err", val |-> kind]; a panic (an abort of the call) is        *)
(* [tag |-> "Panic", val |-> reason].  Record constructors list the fields *)
(* in the order TLC keeps them.                                            *)
(***************************************************************************)
EXTENDS Integers, Sequences, FiniteSets, TLC

VARIABLES root, height, leaf_count, leaves, tx, last, overflow_checks,
          transactions, merkle_leaves, writer_pc, reader_pc, observed

tree == <<root, height, leaf_count, leaves>>
\* StorageData, and the borrows of the tree held by a writer and a reader.
storage == <<transactions, merkle_leaves>>
borrows == <<writer_pc, reader_pc, observed>>
vars == <<root, height, leaf_count, leaves, tx, last, overflow_checks,
          transactions, merkle_leaves, writer_pc, reader_pc, observed>>

\* ------------------------------------------------------------------ bounds

\* The largest number of leaves the model appends to a tree.
MaxLeaves == 8

\* The largest number of add_leaf calls that repeat an earlier data item.
MaxDups == 1

\* The largest number of leaves of a tree whose verifier is handed arbitrary
\* proofs, and the largest number of entries of such a proof.
MaxForgeLeaves == 3
MaxProofLen == 2

\* The number of distinct transaction ids handed to the storage.
MaxIds == 3

\* The largest number of entries the model pushes to merkle_leaves.
MaxStored == 4

\* The largest unsigned 64-bit value, u64::MAX, scaled to the integers TLC
\* computes with; arithmetic on amounts is taken modulo MaxU64 + 1.
MaxU64 == 1048575

\* --------------------------------------------------------------- constants

\* Characters of a hex-encoded SHA-256 digest (32 bytes).
HexDigestLen == 64

\* Characters of the literal root of an empty tree.
ZeroRootLen == 64

\* Bytes of a nonce: [u8; 32].
NonceBytes == 32

\* Bytes of amount.to_le_bytes() for a u64.
U64Bytes == 8

\* ----------------------------------------------------------------- results

Ok(v) == [val |-> v, tag |-> "Ok"]
Err(kind) == [val |-> kind, tag |-> "Err"]
Panic(reason) == [val |-> reason, tag |-> "Panic"]

IsOk(r) == r.tag = "Ok"
IsErr(r, kind) == r.tag = "Err" /\ r.val = kind
IsPanic(r) == r.tag = "Panic"

\* Option<T>: None is the empty sequence, Some(x) the sequence of x alone.
None == <<>>
Some(x) == <<x>>

\* ------------------------------------------------------------------ hashing

\* hex::encode(hasher.finalize()) after hasher.update(p) for each piece p.
Sha256Hex(pieces) == [val |-> pieces, len |-> HexDigestLen]

\* The string "000...0" of n characters.
Zeros(n) == [val |-> <<"zeros">>, len |-> n]

\* ------------------------------------------------------------- merkle_tree

hash_leaf(data) == Sha256Hex(<<"leaf:", data>>)

hash_pair(left, right) == Sha256Hex(<<"node:", left, right>>)

\* A reduction that pairs the unpaired last element with itself.
hash_level_duplicating(level) ==
    [j \in 1..((Len(level) + 1) \div 2) |->
        IF 2 * j <= Len(level)
        THEN hash_pair(level[2 * j - 1], level[2 * j])
        ELSE hash_pair(level[2 * j - 1], level[2 * j - 1])]

hash_level(level) ==
    [j \in 1..((Len(level) + 1) \div 2) |->
        IF 2 * j <= Len(level)
        THEN hash_pair(level[2 * j - 1], level[2 * j])
        ELSE level[2 * j - 1]]

RECURSIVE reduce_levels(_)
reduce_levels(current_level) ==
    IF Len(current_level) > 1
    THEN reduce_levels(hash_level(current_level))
    ELSE current_level[1]

calculate_root(ls) ==
    IF ls = <<>> THEN Zeros(ZeroRootLen) ELSE reduce_levels(ls)

RECURSIVE height_loop(_, _)
height_loop(h, nodes) ==
    IF nodes > 1 THEN height_loop(h + 1, (nodes + 1) \div 2) ELSE h

\* A height loop that halves rounding down.
RECURSIVE height_loop_floor(_, _)
height_loop_floor(h, nodes) ==
    IF nodes > 1 THEN height_loop_floor(h + 1, nodes \div 2) ELSE h

calculate_height_floor(n) == IF n = 0 THEN 0 ELSE height_loop_floor(0, n)

calculate_height(n) == IF n = 0 THEN 0 ELSE height_loop(0, n)

\* Indices are 0-based as in the source; a level is a 1-based sequence.
RECURSIVE proof_loop(_, _, _)
proof_loop(proof, current_index, current_level) ==
    IF Len(current_level) > 1
    THEN LET sibling_index == IF current_index % 2 = 0
                              THEN current_index + 1
                              ELSE current_index - 1
             pushed == IF sibling_index < Len(current_level)
                       THEN Append(proof, current_level[sibling_index + 1])
                       ELSE proof
         IN  proof_loop(pushed, current_index \div 2, hash_level(current_level))
    ELSE proof

\* A bounds check that lets the index leaf_count through.
generate_proof_off_by_one(ls, count, leaf_index) ==
    IF leaf_index > count
    THEN Err("MerkleTreeError")
    ELSE Ok(proof_loop(<<>>, leaf_index, ls))

generate_proof(ls, count, leaf_index) ==
    IF leaf_index >= count
    THEN Err("MerkleTreeError")
    ELSE Ok(proof_loop(<<>>, leaf_index, ls))

RECURSIVE fold_proof(_, _, _)
fold_proof(current_hash, current_index, proof) ==
    IF proof = <<>>
    THEN current_hash
    ELSE LET sibling_hash == Head(proof)
             parent_hash == IF current_index % 2 = 0
                            THEN hash_pair(current_hash, sibling_hash)
                            ELSE hash_pair(sibling_hash, current_hash)
         IN  fold_proof(parent_hash, current_index \div 2, Tail(proof))

\* A verifier that accepts every empty proof.
verify_proof_empty_accepted(rt, leaf_data, proof, leaf_index) ==
    Ok(proof = <<>> \/
       fold_proof(hash_leaf(leaf_data), leaf_index, proof) = rt)

verify_proof(rt, leaf_data, proof, leaf_index) ==
    Ok(fold_proof(hash_leaf(leaf_data), leaf_index, proof) = rt)

\* ------------------------------------------------------- bytes and numbers

RECURSIVE le_bytes(_, _)
le_bytes(n, count) ==
    IF count = 0 THEN <<>> ELSE <<n % 256>> \o le_bytes(n \div 256, count - 1)

\* u64::to_le_bytes: the 8 bytes of the amount, least significant first.
to_le_bytes(amount) == le_bytes(amount, U64Bytes)

\* a + b on u64.  A sum past u64::MAX panics when the build checks overflow
\* (the debug profile) and wraps when it does not (the release profile).
add_u64(a, b) ==
    IF a + b <= MaxU64
    THEN Ok(a + b)
    ELSE IF overflow_checks
         THEN Panic("attempt to add with overflow")
         ELSE Ok((a + b) % (MaxU64 + 1))

\* ---------------------------------------------------------------------- hex

\* A hex string is a sequence of one-character strings.
HexLower == <<"0", "1", "2", "3", "4", "5", "6", "7",
              "8", "9", "a", "b", "c", "d", "e", "f">>
HexUpper == <<"0", "1", "2", "3", "4", "5", "6", "7",
              "8", "9", "A", "B", "C", "D", "E", "F">>

\* The value of each hex digit, of either case.
HexDigitValue ==
    [c \in {HexLower[k] : k \in 1..16} \cup {HexUpper[k] : k \in 1..16} |->
        (CHOOSE k \in 1..16 : HexLower[k] = c \/ HexUpper[k] = c) - 1]

\* The value of a hex digit, -1 for any other character.
hex_val(c) == IF c \in DOMAIN HexDigitValue THEN HexDigitValue[c] ELSE -1

\* hex::encode: two lower-case digits per byte, the high nibble first.
hex_encode(bytes) ==
    [k \in 1..(2 * Len(bytes)) |->
        IF k % 2 = 1
        THEN HexLower[(bytes[(k + 1) \div 2] \div 16) + 1]
        ELSE HexLower[(bytes[k \div 2] % 16) + 1]]

\* A decoder that takes the low nibble of each byte first.
hex_decode_low_first(str) ==
    IF Len(str) % 2 # 0
    THEN Err("OddLength")
    ELSE IF \E k \in 1..Len(str) : hex_val(str[k]) < 0
         THEN Err("InvalidHexCharacter")
         ELSE Ok([j \in 1..(Len(str) \div 2) |->
                     16 * hex_val(str[2 * j]) + hex_val(str[2 * j - 1])])

\* hex::decode: an error for an odd length or a character that is no hex
\* digit, else one byte per two digits.
hex_decode(str) ==
    IF Len(str) % 2 # 0
    THEN Err("OddLength")
    ELSE IF \E k \in 1..Len(str) : hex_val(str[k]) < 0
         THEN Err("InvalidHexCharacter")
         ELSE Ok([j \in 1..(Len(str) \div 2) |->
                     16 * hex_val(str[2 * j - 1]) + hex_val(str[2 * j])])

\* -------------------------------------------------------------- commitment

create_commitment(amount, nonce) ==
    Ok([amount |-> None,
        nonce |-> hex_encode(nonce),
        commitment_hash |-> Sha256Hex(<<to_le_bytes(amount), nonce>>)])

\* generate_nonce() is the argument nonce: the caller of commit draws it.
commit(amount, nonce) ==
    Ok(create_commitment(amount, nonce).val.commitment_hash)

\* nonce_bytes.try_into().unwrap() panics unless exactly 32 bytes were decoded.
open_commitment(commitment, amount, nonce) ==
    LET nonce_bytes == hex_decode(nonce)
    IN  IF ~IsOk(nonce_bytes)
        THEN Err("CryptoError")
        ELSE IF Len(nonce_bytes.val) # NonceBytes
             THEN Panic("unwrap on an Err value")
             ELSE Ok(commitment.commitment_hash =
                       create_commitment(amount, nonce_bytes.val).val.commitment_hash)

\* len() of a string.
str_len(str) == str.len

verify_knowledge(commitment_hash, proof) ==
    Ok(str_len(commitment_hash) = HexDigestLen /\ str_len(proof) = HexDigestLen)

\* A verification that also wants a non-empty range.
verify_range_proof_checking_range(proof, commitment_hash, min, max) ==
    Ok(str_len(proof) = HexDigestLen /\ str_len(commitment_hash) = HexDigestLen
       /\ min <= max)

verify_range_proof(proof, commitment_hash, min, max) ==
    Ok(str_len(proof) = HexDigestLen /\ str_len(commitment_hash) = HexDigestLen)

CommitmentScheme_create_range_proof(amount, min, max) ==
    IF amount < min \/ amount > max
    THEN Err("InvalidAmount")
    ELSE Ok(Sha256Hex(<<to_le_bytes(amount), to_le_bytes(min), to_le_bytes(max),
                        "range_proof">>))

\* ---------------------------------------------------------------- zk_proof

\* A range check that excludes the upper boundary.
create_range_proof_exclusive(amount, min, max, nonce) ==
    IF amount < min \/ amount >= max
    THEN Err("InvalidAmount")
    ELSE Ok(Sha256Hex(<<to_le_bytes(amount), to_le_bytes(min), to_le_bytes(max),
                        "range_proof", nonce>>))

ZeroKnowledgeProof_create_range_proof(amount, min, max, nonce) ==
    IF amount < min \/ amount > max
    THEN Err("InvalidAmount")
    ELSE Ok(Sha256Hex(<<to_le_bytes(amount), to_le_bytes(min), to_le_bytes(max),
                        "range_proof", nonce>>))

create_balance_proof(input_total, output_total, fee) ==
    LET sum == add_u64(output_total, fee)
    IN  IF IsPanic(sum)
        THEN sum
        ELSE IF input_total # sum.val
             THEN Err("InvalidTransaction")
             ELSE Ok(Sha256Hex(<<to_le_bytes(input_total), to_le_bytes(output_total),
                                 to_le_bytes(fee), "balance_proof">>))

\* hex::encode(&hasher.finalize()[..16]): the first 16 bytes of the digest.
generate_proof_id(transaction_id, nonce) ==
    [val |-> <<"prefix16", <<transaction_id, "zk_proof", nonce>>>>, len |-> 32]

create_proof_data(transaction_id, nonce) ==
    Sha256Hex(<<transaction_id, "proof_data", nonce>>)

\* The proof id, a colon and the proof data, as format! joins them.
ZeroKnowledgeProof_generate(transaction_id, nonce1, nonce2) ==
    LET proof_id == generate_proof_id(transaction_id, nonce1)
        proof_data == create_proof_data(transaction_id, nonce2)
    IN  Ok([val |-> <<proof_id, ":", proof_data>>,
            len |-> proof_id.len + 1 + proof_data.len])

\* ---------------------------------------------------- shielded_transaction

\* A fee without the minimum of one unit.
calculate_fee_no_minimum(amount) == amount \div 1000

calculate_fee(amount) ==
    IF amount \div 1000 > 1 THEN amount \div 1000 ELSE 1

generate_transaction_id(from, to, amount, nonce, uuid) ==
    Ok(Sha256Hex(<<from, to, to_le_bytes(amount), nonce, uuid>>))

generate_signature(transaction_id, signer, nonce) ==
    Ok(Sha256Hex(<<transaction_id, signer, nonce>>))

\* rnd is the sequence of the random values the call draws, in the order it
\* draws them: the id's nonce and uuid, then the signature's nonce.
create_public(from, to, amount, rnd) ==
    LET id == generate_transaction_id(from, to, amount, rnd[1], rnd[2]).val
        fee == calculate_fee(amount)
        signature == generate_signature(id, from, rnd[3]).val
    IN  Ok([amount |-> amount, fee |-> fee, from |-> from, to |-> to, id |-> id,
            signature |-> signature,
            transaction_type |-> "Public",
            input_commitments |-> <<>>,
            output_commitments |-> <<>>,
            zk_proof |-> None,
            status |-> "Pending"])

\* rnd: the id's nonce and uuid, the nonces of the input, output and change
\* commitments, the two nonces of the proof, the signature's nonce.
create_shielded(from, to, amount, rnd) ==
    LET id == generate_transaction_id(from, to, amount, rnd[1], rnd[2]).val
        fee == calculate_fee(amount)
        input_total == add_u64(amount, fee)
    IN  IF IsPanic(input_total)
        THEN input_total
        ELSE
        LET input_commitment == commit(input_total.val, rnd[3]).val
            output_commitment == commit(amount, rnd[4]).val
            change_commitment == IF fee > 0 THEN Some(commit(0, rnd[5]).val) ELSE None
            input_commitments == <<input_commitment>>
            output_commitments == <<output_commitment>> \o change_commitment
            zk_proof == ZeroKnowledgeProof_generate(id, rnd[6], rnd[7]).val
            signature == generate_signature(id, from, rnd[8]).val
        IN  Ok([amount |-> amount, fee |-> fee, from |-> from, to |-> to, id |-> id,
                signature |-> signature,
                transaction_type |-> "Shielded",
                input_commitments |-> input_commitments,
                output_commitments |-> output_commitments,
                zk_proof |-> Some(zk_proof),
                status |-> "Pending"])

get_input_total(t) == add_u64(t.amount, t.fee)

get_output_total(t) == Ok(t.amount)

is_balanced(t) ==
    LET input_total == get_input_total(t)
        output_plus_fee == add_u64(get_output_total(t).val, t.fee)
    IN  IF IsPanic(input_total)
        THEN input_total
        ELSE IF IsPanic(output_plus_fee)
             THEN output_plus_fee
             ELSE Ok(input_total.val = output_plus_fee.val)

\* ------------------------------------------------------------------ state

\* A constructor whose literal root has four characters too many.
MerkleTree_new_long ==
    /\ root = Zeros(ZeroRootLen + 4)
    /\ height = 0
    /\ leaf_count = 0
    /\ leaves = <<>>

MerkleTree_new ==
    /\ root = Zeros(ZeroRootLen)
    /\ height = 0
    /\ leaf_count = 0
    /\ leaves = <<>>

\* The transaction ids a caller stores are named 0..MaxIds-1.  The HashMap
\* is a sequence with one entry per id: None for an absent key, Some(value)
\* for a present one.
TxIds == 0..(MaxIds - 1)
HashMap_new == [k \in 1..MaxIds |-> None]
HashMap_keys(map) == {id \in TxIds : map[id + 1] # None}
HashMap_insert(map, id, value) ==
    [k \in 1..MaxIds |-> IF k = id + 1 THEN Some(value) ELSE map[k]]

StorageData_new ==
    /\ transactions = HashMap_new
    /\ merkle_leaves = <<>>

\* Nobody holds a borrow of the tree and nothing has been observed.
NoBorrows ==
    /\ writer_pc = "idle"
    /\ reader_pc = "idle"
    /\ observed = <<None, None, None>>

Init ==
    /\ MerkleTree_new
    /\ tx = None
    /\ last = [op |-> "new"]
    /\ overflow_checks \in BOOLEAN
    /\ StorageData_new
    /\ NoBorrows

\* The data items appended so far, and the data a caller may pass next: an
\* item never used (named by the number of distinct items so far) or, at most
\* MaxDups times, one used before.
Distinct(ls) == Cardinality({ls[i] : i \in 1..Len(ls)})
NextData(ls) ==
    {Distinct(ls)} \cup
    (IF Len(ls) - Distinct(ls) < MaxDups THEN 0..(Distinct(ls) - 1) ELSE {})

\* An add_leaf that inserts the new leaf hash at the front.
add_leaf_at_front(data) ==
    /\ leaf_count < MaxLeaves
    /\ LET pushed == <<hash_leaf(data)>> \o leaves
       IN  /\ leaves' = pushed
           /\ leaf_count' = leaf_count + 1
           /\ root' = calculate_root(pushed)
           /\ height' = calculate_height(leaf_count + 1)
    /\ last' = [data |-> data, op |-> "add_leaf", ret |-> Ok(TRUE)]
    /\ UNCHANGED <<tx, overflow_checks, storage, borrows>>

add_leaf(data) ==
    /\ leaf_count < MaxLeaves
    /\ LET pushed == Append(leaves, hash_leaf(data))
       IN  /\ leaves' = pushed
           /\ leaf_count' = leaf_count + 1
           /\ root' = calculate_root(pushed)
           /\ height' = calculate_height(leaf_count + 1)
    /\ last' = [data |-> data, op |-> "add_leaf", ret |-> Ok(TRUE)]
    /\ UNCHANGED <<tx, overflow_checks, storage, borrows>>

GenerateProof(leaf_index) ==
    /\ last' = [leaf_index |-> leaf_index, op |-> "generate_proof",
                ret |-> generate_proof(leaves, leaf_count, leaf_index)]
    /\ UNCHANGED <<tree, tx, overflow_checks, storage, borrows>>

VerifyProof(leaf_data, proof, leaf_index) ==
    /\ last' = [proof |-> proof, leaf_index |-> leaf_index,
                leaf_data |-> leaf_data, op |-> "verify_proof",
                ret |-> verify_proof(root, leaf_data, proof, leaf_index)]
    /\ UNCHANGED <<tree, tx, overflow_checks, storage, borrows>>

\* The getters root(), height() and leaf_count().
Getter(name) ==
    /\ last' = [op |-> name,
                ret |-> CASE name = "root" -> root
                          [] name = "height" -> height
                          [] name = "leaf_count" -> leaf_count]
    /\ UNCHANGED <<tree, tx, overflow_checks, storage, borrows>>

AddLeafStep == \E data \in NextData(leaves) : add_leaf(data)
GetterStep == \E name \in {"root", "height", "leaf_count"} : Getter(name)
GenerateProofStep == \E i \in 0..MaxLeaves : GenerateProof(i)
\* The caller verifies the proof it has just been given by generate_proof, at
\* the index it asked for, for any leaf data (the items added and one never
\* added).
VerifyProofStep ==
    /\ last.op = "generate_proof"
    /\ IsOk(last.ret)
    /\ \E d \in 0..Distinct(leaves) :
           VerifyProof(d, last.ret.val, last.leaf_index)

NextMerkle ==
    AddLeafStep \/ GenerateProofStep \/ VerifyProofStep \/ GetterStep

SpecMerkle == Init /\ [][NextMerkle]_vars

\* A verifier handed arbitrary input.  The entries of a proof are any of the
\* hashes of the tree (leaves, inner nodes, root), the leaf hash of a data
\* item never added, and a 64-character string that is no hash; the leaf
\* index is any index of the tree or one of the two after its end; the leaf
\* data is any item added or the item never added.
RECURSIVE level_nodes(_)
level_nodes(level) ==
    {level[i] : i \in 1..Len(level)} \cup
    (IF Len(level) > 1 THEN level_nodes(hash_level(level)) ELSE {})

ProofStrings(ls) ==
    level_nodes(ls) \cup {hash_leaf(Distinct(ls)), Zeros(HexDigestLen)}

Proofs(ls) == UNION {[1..n -> ProofStrings(ls)] : n \in 0..MaxProofLen}

SmallAddLeafStep == leaf_count < MaxForgeLeaves /\ AddLeafStep
\* One query per tree state: a query leaves the tree unchanged, so a second
\* query in a row sees nothing the first could not.
ArbitraryVerifyStep ==
    /\ last.op # "verify_proof"
    /\ \E d \in 0..Distinct(leaves), i \in 0..(leaf_count + 1),
          proof \in Proofs(leaves) : VerifyProof(d, proof, i)

NextVerify == SmallAddLeafStep \/ ArbitraryVerifyStep

SpecVerify == Init /\ [][NextVerify]_vars

\* ------------------------------------------------------------------ inputs

\* The values generate_nonce() returns in the model: the all-zero nonce and
\* one whose bytes use both nibbles.
ZeroNonce == [k \in 1..NonceBytes |-> 0]
MixedNonce == [k \in 1..NonceBytes |-> (37 * k + 140) % 256]
Nonces == {ZeroNonce, MixedNonce}

\* The random values one call draws, in order.
Draws ==
    {[k \in 1..8 |-> ZeroNonce],
     [k \in 1..8 |-> MixedNonce],
     [k \in 1..8 |-> IF k % 2 = 1 THEN ZeroNonce ELSE MixedNonce]}

\* Uuid::new_v4().as_bytes(): 16 random bytes.
UuidOf(draw) == SubSeq(draw, 1, 16)

to_upper(str) == [k \in 1..Len(str) |-> HexUpper[hex_val(str[k]) + 1]]

\* The strings a caller passes as nonce: the encodings of the nonces in both
\* cases, valid hex of 0, 1, 31 and 33 bytes, hex of odd length, and strings
\* with a character that is no hex digit.
HexInputs ==
    LET h == hex_encode(MixedNonce)
    IN  {hex_encode(n) : n \in Nonces} \cup {to_upper(h)} \cup
        {<<>>, <<"0">>, <<"0", "0">>, <<"z", "z">>,
         SubSeq(h, 1, 2 * NonceBytes - 2), h \o <<"0", "0">>,
         SubSeq(h, 1, 2 * NonceBytes - 1), [h EXCEPT ![2 * NonceBytes] = "g"]}

CommitAmounts == {0, 1, 256, MaxU64}

\* The commitments a caller holds: those create_commitment returns, and one
\* whose hash no commitment has.
Commitments ==
    {create_commitment(a, n).val : a \in CommitAmounts, n \in Nonces} \cup
    {[amount |-> None, nonce |-> hex_encode(ZeroNonce),
      commitment_hash |-> Zeros(HexDigestLen)]}

RangeValues == {0, 1, 2, MaxU64 - 1, MaxU64}

\* The strings handed to the verifiers: strings of several lengths, a
\* commitment hash and a range proof, and the range bounds handed with them.
StringLens == {0, 63, 64, 65}
VerifyStrings ==
    {Zeros(n) : n \in StringLens} \cup
    {commit(1, MixedNonce).val,
     CommitmentScheme_create_range_proof(1, 0, 2).val}
VerifyBounds == {0, 2}

Totals == {0, 1, 2, 1000, 1001, MaxU64 - 1, MaxU64}

\* The last amount is the largest whose sum with its fee is still a u64.
TxAmounts ==
    {0, 1, 999, 1000, 2500, MaxU64 - 1, MaxU64,
     MaxU64 - ((MaxU64 \div 1000) + 1)}

Parties == {<<"alice", "bob">>, <<"bob", "alice">>}

\* -------------------------------------------------- commitment operations

CreateCommitment(amount, nonce) ==
    /\ last' = [amount |-> amount, nonce |-> nonce, op |-> "create_commitment",
                ret |-> create_commitment(amount, nonce)]
    /\ UNCHANGED <<tree, tx, overflow_checks, storage, borrows>>

Commit(amount, nonce) ==
    /\ last' = [amount |-> amount, op |-> "commit", ret |-> commit(amount, nonce)]
    /\ UNCHANGED <<tree, tx, overflow_checks, storage, borrows>>

OpenCommitment(commitment, amount, nonce) ==
    /\ last' = [amount |-> amount, nonce |-> nonce, commitment |-> commitment,
                op |-> "open_commitment",
                ret |-> open_commitment(commitment, amount, nonce)]
    /\ UNCHANGED <<tree, tx, overflow_checks, storage, borrows>>

VerifyKnowledge(commitment_hash, proof) ==
    /\ last' = [proof |-> proof, commitment_hash |-> commitment_hash,
                op |-> "verify_knowledge",
                ret |-> verify_knowledge(commitment_hash, proof)]
    /\ UNCHANGED <<tree, tx, overflow_checks, storage, borrows>>

VerifyRangeProof(proof, commitment_hash, min, max) ==
    /\ last' = [proof |-> proof, commitment_hash |-> commitment_hash,
                min |-> min, max |-> max, op |-> "verify_range_proof",
                ret |-> verify_range_proof(proof, commitment_hash, min, max)]
    /\ UNCHANGED <<tree, tx, overflow_checks, storage, borrows>>

CreateCommitmentStep ==
    \E a \in CommitAmounts, n \in Nonces : CreateCommitment(a, n)
CommitStep == \E a \in CommitAmounts, n \in Nonces : Commit(a, n)
OpenCommitmentStep ==
    \E c \in Commitments, a \in CommitAmounts, h \in HexInputs :
        OpenCommitment(c, a, h)

VerifyKnowledgeStep ==
    \E c \in VerifyStrings, p \in VerifyStrings : VerifyKnowledge(c, p)
VerifyRangeProofStep ==
    \E p \in VerifyStrings, c \in VerifyStrings, min \in VerifyBounds,
       max \in VerifyBounds : VerifyRangeProof(p, c, min, max)

NextCommitment ==
    \/ CreateCommitmentStep
    \/ CommitStep
    \/ OpenCommitmentStep
    \/ VerifyKnowledgeStep
    \/ VerifyRangeProofStep

SpecCommitment == Init /\ [][NextCommitment]_vars

\* ------------------------------------------------------- proof operations

CommitmentRangeProof(amount, min, max) ==
    /\ last' = [amount |-> amount, min |-> min, max |-> max,
                op |-> "CommitmentScheme::create_range_proof",
                ret |-> CommitmentScheme_create_range_proof(amount, min, max)]
    /\ UNCHANGED <<tree, tx, overflow_checks, storage, borrows>>

ZkRangeProof(amount, min, max, nonce) ==
    /\ last' = [amount |-> amount, min |-> min, max |-> max,
                op |-> "ZeroKnowledgeProof::create_range_proof",
                ret |-> ZeroKnowledgeProof_create_range_proof(amount, min, max, nonce)]
    /\ UNCHANGED <<tree, tx, overflow_checks, storage, borrows>>

BalanceProof(input_total, output_total, fee) ==
    /\ last' = [input_total |-> input_total, output_total |-> output_total,
                fee |-> fee, op |-> "create_balance_proof",
                ret |-> create_balance_proof(input_total, output_total, fee)]
    /\ UNCHANGED <<tree, tx, overflow_checks, storage, borrows>>

CommitmentRangeProofStep ==
    \E a \in RangeValues, lo \in RangeValues, hi \in RangeValues :
        CommitmentRangeProof(a, lo, hi)
ZkRangeProofStep ==
    \E a \in RangeValues, lo \in RangeValues, hi \in RangeValues, n \in Nonces :
        ZkRangeProof(a, lo, hi, n)
BalanceProofStep ==
    \E i \in Totals, o \in Totals, f \in Totals : BalanceProof(i, o, f)

NextProofs == CommitmentRangeProofStep \/ ZkRangeProofStep \/ BalanceProofStep

SpecProofs == Init /\ [][NextProofs]_vars

\* ------------------------------------------------- transaction operations

\* tx is the caller's binding of the transaction a create call returned: None
\* when the call did not return one.
Built(op, from, to, amount, ret) ==
    /\ last' = [amount |-> amount, from |-> from, to |-> to, op |-> op, ret |-> ret]
    /\ tx' = IF IsOk(ret) THEN Some(ret.val) ELSE None
    /\ UNCHANGED <<tree, overflow_checks, storage, borrows>>

CreatePublic(from, to, amount, rnd) ==
    Built("create_public", from, to, amount,
          create_public(from, to, amount, <<rnd[1], UuidOf(rnd[2]), rnd[3]>>))

CreateShielded(from, to, amount, rnd) ==
    Built("create_shielded", from, to, amount,
          create_shielded(from, to, amount,
                          <<rnd[1], UuidOf(rnd[2]), rnd[3], rnd[4], rnd[5], rnd[6],
                            rnd[7], rnd[8]>>))

Query(op, ret) ==
    /\ tx # None
    /\ last' = [op |-> op, ret |-> ret]
    /\ UNCHANGED <<tree, tx, overflow_checks, storage, borrows>>

CreatePublicStep ==
    \E p \in Parties, a \in TxAmounts, rnd \in Draws : CreatePublic(p[1], p[2], a, rnd)
CreateShieldedStep ==
    \E p \in Parties, a \in TxAmounts, rnd \in Draws : CreateShielded(p[1], p[2], a, rnd)
IsBalancedStep == Query("is_balanced", is_balanced(tx[1]))
GetInputTotalStep == Query("get_input_total", get_input_total(tx[1]))
GetOutputTotalStep == Query("get_output_total", get_output_total(tx[1]))

NextTx ==
    \/ CreatePublicStep
    \/ CreateShieldedStep
    \/ IsBalancedStep
    \/ GetInputTotalStep
    \/ GetOutputTotalStep

SpecTx == Init /\ [][NextTx]_vars

\* ----------------------------------------------- a writer and a reader

\* add_leaf takes the tree by exclusive reference (&mut self) and the getters
\* take it by shared reference (&self).  The language grants a shared
\* reference only while no exclusive one is alive, and an exclusive one only
\* while no other reference is alive; the tree has no interior mutability
\* and the code no unsafe block.  writer_pc is the writer's position inside
\* add_leaf, "idle" outside of it; reader_pc is "reading" while the reader
\* holds its shared reference; observed holds what the reader has read
\* through that reference: <<root, leaf_count, height>>, None where it has
\* not read.

\* A shared reference handed out whatever the writer is doing.
shared_borrow_unchecked == TRUE

shared_borrow_allowed == writer_pc = "idle"

exclusive_borrow_allowed == writer_pc = "idle" /\ reader_pc = "idle"

\* The statements of add_leaf, one step each.
WriterPush(data) ==
    /\ exclusive_borrow_allowed
    /\ leaf_count < MaxLeaves
    /\ leaves' = Append(leaves, hash_leaf(data))
    /\ writer_pc' = "pushed"
    /\ UNCHANGED <<root, height, leaf_count, tx, last, overflow_checks,
                   storage, reader_pc, observed>>

WriterCount ==
    /\ writer_pc = "pushed"
    /\ leaf_count' = leaf_count + 1
    /\ writer_pc' = "counted"
    /\ UNCHANGED <<root, height, leaves, tx, last, overflow_checks,
                   storage, reader_pc, observed>>

WriterRoot ==
    /\ writer_pc = "counted"
    /\ root' = calculate_root(leaves)
    /\ writer_pc' = "rooted"
    /\ UNCHANGED <<height, leaf_count, leaves, tx, last, overflow_checks,
                   storage, reader_pc, observed>>

WriterHeight ==
    /\ writer_pc = "rooted"
    /\ height' = calculate_height(leaf_count)
    /\ writer_pc' = "idle"
    /\ UNCHANGED <<root, leaf_count, leaves, tx, last, overflow_checks,
                   storage, reader_pc, observed>>

ReaderBorrow ==
    /\ reader_pc = "idle"
    /\ shared_borrow_allowed
    /\ reader_pc' = "reading"
    /\ observed' = <<None, None, None>>
    /\ UNCHANGED <<tree, tx, last, overflow_checks, storage, writer_pc>>

\* field 1 is root(), field 2 leaf_count(), field 3 height().
Read(field) ==
    /\ reader_pc = "reading"
    /\ observed[field] = None
    /\ observed' = [observed EXCEPT ![field] =
                       Some(CASE field = 1 -> root
                              [] field = 2 -> leaf_count
                              [] field = 3 -> height)]
    /\ UNCHANGED <<tree, tx, last, overflow_checks, storage, writer_pc,
                   reader_pc>>

ReaderRelease ==
    /\ reader_pc = "reading"
    /\ reader_pc' = "idle"
    /\ observed' = <<None, None, None>>
    /\ UNCHANGED <<tree, tx, last, overflow_checks, storage, writer_pc>>

WriterPushStep == \E data \in NextData(leaves) : WriterPush(data)
ReadStep == \E field \in 1..3 : Read(field)

NextBorrows ==
    \/ WriterPushStep
    \/ WriterCount
    \/ WriterRoot
    \/ WriterHeight
    \/ ReaderBorrow
    \/ ReadStep
    \/ ReaderRelease

SpecBorrows == Init /\ [][NextBorrows]_vars

\* ----------------------------------------------------------------- storage

\* save() writes two files; whether the file system lets it is not the
\* program's choice.
save(written) == IF written THEN Ok(TRUE) ELSE Err("StorageError")

\* add_leaf on a tree value <<root, height, leaf_count, leaves>>.
tree_add_leaf(t, data) ==
    LET pushed == Append(t[4], hash_leaf(data))
    IN  <<calculate_root(pushed), calculate_height(t[3] + 1), t[3] + 1, pushed>>

RECURSIVE rebuild_loop(_, _)
rebuild_loop(t, rest) ==
    IF rest = <<>>
    THEN t
    ELSE rebuild_loop(tree_add_leaf(t, Head(rest)), Tail(rest))

\* The tree value MerkleTree::new() returns.
new_tree == <<Zeros(ZeroRootLen), 0, 0, <<>>>>

rebuild_merkle_tree(ls) == rebuild_loop(new_tree, ls)

\* The transaction stored under an id is named by a number.
TxBodies == {0, 1}

AddTransaction(id, transaction, written) ==
    /\ Len(merkle_leaves) < MaxStored
    /\ transactions' = HashMap_insert(transactions, id, transaction)
    /\ merkle_leaves' = Append(merkle_leaves, id)
    /\ last' = [id |-> id, op |-> "add_transaction", ret |-> save(written)]
    /\ UNCHANGED <<tree, tx, overflow_checks, borrows>>

\* A clear that forgets the leaf list.
Clear_keeping_leaves(written) ==
    /\ transactions' = HashMap_new
    /\ merkle_leaves' = merkle_leaves
    /\ last' = [op |-> "clear", ret |-> save(written)]
    /\ UNCHANGED <<tree, tx, overflow_checks, borrows>>

Clear(written) ==
    /\ transactions' = HashMap_new
    /\ merkle_leaves' = <<>>
    /\ last' = [op |-> "clear", ret |-> save(written)]
    /\ UNCHANGED <<tree, tx, overflow_checks, borrows>>

\* The call returns a tree of its own, as a tree value.
RebuildMerkleTree ==
    /\ last' = [op |-> "rebuild_merkle_tree",
                ret |-> rebuild_merkle_tree(merkle_leaves)]
    /\ UNCHANGED <<tree, tx, overflow_checks, storage, borrows>>

AddTransactionStep ==
    \E id \in TxIds, transaction \in TxBodies, written \in BOOLEAN :
        AddTransaction(id, transaction, written)
ClearStep == \E written \in BOOLEAN : Clear(written)

NextStorage == AddTransactionStep \/ ClearStep \/ RebuildMerkleTree

SpecStorage == Init /\ [][NextStorage]_vars

\* ------------------------------------------------------------------ claims

\* The tree holds the items L0 .. Lk-1, added in this order.
InOrderTree == \A j \in 1..Len(leaves) : leaves[j] = hash_leaf(j - 1)

\* C1: on a tree built by adding k distinct items L0..Lk-1 in order (k from 1
\* to 8), verify_proof(Li, generate_proof(i), i) returns true for every index
\* i < k.
C1_InclusionRoundTrip ==
    ( /\ last.op = "verify_proof"
      /\ InOrderTree
      /\ last.leaf_index < leaf_count
      /\ last.leaf_data = last.leaf_index
      /\ generate_proof(leaves, leaf_count, last.leaf_index) = Ok(last.proof) )
    => (IsOk(last.ret) /\ last.ret.val = TRUE)

\* One layer of the reduction, as the specification words it: each adjacent
\* pair at even offsets becomes the hash of "node:" and the pair, and an
\* unpaired last element is carried over unchanged.
RECURSIVE PairLayer(_)
PairLayer(layer) ==
    IF Len(layer) = 0
    THEN <<>>
    ELSE IF Len(layer) = 1
         THEN layer
         ELSE <<Sha256Hex(<<"node:", layer[1], layer[2]>>)>>
              \o PairLayer(SubSeq(layer, 3, Len(layer)))

RECURSIVE PairwiseReduction(_)
PairwiseReduction(layer) ==
    IF Len(layer) = 1 THEN layer[1] ELSE PairwiseReduction(PairLayer(layer))

\* C2: in every state reached from new by add_leaf calls, leaf_count is the
\* length of leaves and root is the pairwise reduction of leaves, an unpaired
\* last element of an odd layer being promoted unchanged.
C2_RootIsReduction ==
    /\ leaf_count = Len(leaves)
    /\ leaves # <<>> => root = PairwiseReduction(leaves)

C2_Witness ==
    /\ last.op = "add_leaf"
    /\ leaf_count = 7
    /\ root = PairwiseReduction(leaves)

\* The string is valid hex: an even number of hex digits.
IsHex(str) == Len(str) % 2 = 0 /\ \A k \in 1..Len(str) : hex_val(str[k]) >= 0

\* C3: open_commitment returns a crypto error, and does not abort, when the
\* nonce is valid hex of a byte length other than 32 (the empty string
\* included) and when the nonce is not valid hex.
C3_BadNonceIsCryptoError ==
    ( /\ last.op = "open_commitment"
      /\ ~(IsHex(last.nonce) /\ Len(last.nonce) = 2 * NonceBytes) )
    => IsErr(last.ret, "CryptoError")

\* C4: for a 32-byte nonce n passed hex-encoded, open_commitment(c, a, n) is
\* true exactly when c.commitment_hash is the hash of create_commitment(a, n);
\* opening a commitment created from (a0, n0) is true with the same amount
\* and nonce and false with another amount or another nonce.
C4_OpenMatchesCreate ==
    last.op = "open_commitment" =>
        \A n \in Nonces :
            last.nonce \in {hex_encode(n), to_upper(hex_encode(n))} =>
                /\ IsOk(last.ret)
                /\ last.ret.val =
                     (last.commitment.commitment_hash =
                        create_commitment(last.amount, n).val.commitment_hash)
                /\ \A a0 \in CommitAmounts, n0 \in Nonces :
                       last.commitment = create_commitment(a0, n0).val =>
                           last.ret.val = (last.amount = a0 /\ n = n0)

C4_Witness ==
    /\ last.op = "open_commitment"
    /\ last.nonce = hex_encode(MixedNonce)
    /\ last.commitment = create_commitment(256, MixedNonce).val
    /\ last.amount = 256
    /\ IsOk(last.ret)
    /\ last.ret.val = TRUE

\* C5: create_balance_proof fails with an invalid-transaction error unless
\* input_total is the exact integer sum output_total + fee, and otherwise
\* succeeds; a sum past the 64-bit range neither makes an unbalanced triple
\* succeed nor aborts the call.
C5_BalanceProofExact ==
    last.op = "create_balance_proof" =>
        IF last.input_total = last.output_total + last.fee
        THEN IsOk(last.ret)
        ELSE IsErr(last.ret, "InvalidTransaction")

\* C6: is_balanced() returns true on every transaction that create_public or
\* create_shielded built, for any amount.
C6_IsBalancedTrue ==
    last.op = "is_balanced" => (IsOk(last.ret) /\ last.ret.val = TRUE)

\* The integer whose little-endian bytes are given.
RECURSIVE from_le_bytes(_)
from_le_bytes(bytes) ==
    IF bytes = <<>> THEN 0 ELSE Head(bytes) + 256 * from_le_bytes(Tail(bytes))

\* The amount a commitment hash was built over.
CommittedAmount(commitment_hash) == from_le_bytes(commitment_hash.val[1])

\* C7: a transaction create_shielded returns has exactly one input
\* commitment, over amount + fee, and exactly two output commitments, the one
\* over amount and then the change commitment over 0; its proof is present,
\* its type Shielded and its status Pending.
C7_ShieldedShape ==
    (last.op = "create_shielded" /\ IsOk(last.ret)) =>
        LET t == last.ret.val
        IN  /\ t.amount = last.amount
            /\ t.fee > 0
            /\ Len(t.input_commitments) = 1
            /\ CommittedAmount(t.input_commitments[1]) = t.amount + t.fee
            /\ Len(t.output_commitments) = 2
            /\ CommittedAmount(t.output_commitments[1]) = t.amount
            /\ CommittedAmount(t.output_commitments[2]) = 0
            /\ t.zk_proof # None
            /\ t.transaction_type = "Shielded"
            /\ t.status = "Pending"

IsRangeProofCall ==
    last.op \in {"CommitmentScheme::create_range_proof",
                 "ZeroKnowledgeProof::create_range_proof"}

\* C8: create_range_proof, of CommitmentScheme and of ZeroKnowledgeProof,
\* fails with an invalid-amount error exactly when amount < min or
\* amount > max and succeeds otherwise, the boundaries amount = min and
\* amount = max included; with min > max it fails for every amount.
C8_RangeProofBounds ==
    IsRangeProofCall =>
        /\ IF last.min <= last.amount /\ last.amount <= last.max
           THEN IsOk(last.ret) /\ last.ret.val.len = 64
           ELSE IsErr(last.ret, "InvalidAmount")
        /\ last.min > last.max => IsErr(last.ret, "InvalidAmount")

C8_Witness ==
    /\ last.op = "ZeroKnowledgeProof::create_range_proof"
    /\ last.min < last.max
    /\ last.amount = last.max
    /\ IsOk(last.ret)

\* C9 as stated: the root of a tree without leaves, and calculate_root of no
\* leaves, is the string of 68 '0' characters.
C9_ZeroRoot68 ==
    /\ leaves = <<>> => root = Zeros(68)
    /\ calculate_root(<<>>) = Zeros(68)

\* C9, amended: the root of a tree without leaves, and calculate_root of no
\* leaves, is the string of 64 '0' characters.
C9_ZeroRoot64 ==
    /\ leaves = <<>> => root = Zeros(64)
    /\ calculate_root(<<>>) = Zeros(64)

C9_Witness ==
    /\ leaves = <<>>
    /\ leaf_count = 0
    /\ last.op = "generate_proof"
    /\ root.len = 64

\* C10: generate_proof(leaf_index) returns a merkle-tree error exactly when
\* leaf_index >= leaf_count and a proof otherwise, and in both cases leaves
\* root, height, leaf_count and leaves unchanged.
C10_GenerateProofBounds ==
    [][last'.op = "generate_proof" =>
          /\ root' = root
          /\ height' = height
          /\ leaf_count' = leaf_count
          /\ leaves' = leaves
          /\ IF last'.leaf_index >= leaf_count
             THEN IsErr(last'.ret, "MerkleTreeError")
             ELSE IsOk(last'.ret)]_vars

C10_Witness ==
    /\ last.op = "generate_proof"
    /\ leaf_count = 3
    /\ last.leaf_index = 3
    /\ IsErr(last.ret, "MerkleTreeError")

\* C12: the leaf list is append-only.  Every add_leaf(data) raises leaf_count
\* by exactly one, puts Hash("leaf:" || data) at the new last position and
\* keeps every earlier leaf at its position; no step of any operation
\* (add_leaf, generate_proof, verify_proof, root, height, leaf_count)
\* lowers leaf_count or removes, reorders or rewrites a leaf.
C12_AppendOnly ==
    [][/\ leaf_count' >= leaf_count
       /\ Len(leaves') >= Len(leaves)
       /\ \A i \in 1..Len(leaves) : leaves'[i] = leaves[i]
       /\ (last'.op = "add_leaf" \/ tree' # tree) =>
              /\ last'.op = "add_leaf"
              /\ leaf_count' = leaf_count + 1
              /\ Len(leaves') = Len(leaves) + 1
              /\ leaves'[Len(leaves')] =
                     Sha256Hex(<<"leaf:", last'.data>>)]_vars

C12_Witness ==
    /\ last.op = "add_leaf"
    /\ leaf_count = 3
    /\ leaves[3] = Sha256Hex(<<"leaf:", last.data>>)
    /\ leaves[1] # leaves[3]

\* The least h with 2^h >= n.
CeilLog2(n) == CHOOSE h \in 0..n : 2^h >= n /\ \A g \in 0..(h - 1) : 2^g < n

\* C13: height is 0 when leaf_count is 0 or 1 and ceil(log2(leaf_count))
\* otherwise; the heights for leaf counts 0, 1, 2, 3, 4, 5, 8 are
\* 0, 0, 1, 2, 2, 3, 3.
C13_HeightIsCeilLog2 ==
    /\ height = (IF leaf_count <= 1 THEN 0 ELSE CeilLog2(leaf_count))
    /\ leaf_count = 0 => height = 0
    /\ leaf_count = 1 => height = 0
    /\ leaf_count = 2 => height = 1
    /\ leaf_count = 3 => height = 2
    /\ leaf_count = 4 => height = 2
    /\ leaf_count = 5 => height = 3
    /\ leaf_count = 8 => height = 3

C13_Witness ==
    /\ leaf_count = 5
    /\ height = 3
    /\ last.op = "add_leaf"

\* C15: the fee of a transaction is max(1, floor(amount / 1000)) for every
\* amount, so at least 1 even for amount 0; every transaction built by
\* create_public or create_shielded records this fee; the fees of the
\* amounts 999, 1000 and 2500 are 1, 1 and 2.
C15_FeeRule ==
    /\ tx # None =>
          LET amount == tx[1].amount
              fee == tx[1].fee
          IN  /\ fee >= 1
              /\ amount < 1000 => fee = 1
              /\ amount >= 1000 =>
                     (1000 * fee <= amount /\ amount < 1000 * (fee + 1))
    /\ (last.op \in {"create_public", "create_shielded"} /\ IsOk(last.ret)) =>
          /\ last.ret.val.amount = last.amount
          /\ last.amount = 0 => last.ret.val.fee = 1
          /\ last.amount = 999 => last.ret.val.fee = 1
          /\ last.amount = 1000 => last.ret.val.fee = 1
          /\ last.amount = 2500 => last.ret.val.fee = 2

C15_Witness ==
    /\ last.op = "create_shielded"
    /\ IsOk(last.ret)
    /\ last.amount = 2500
    /\ tx # None
    /\ tx[1].fee = 2

\* C16: for every amount, the largest ones included, create_shielded
\* returns without aborting and, when it succeeds, its input commitment is
\* over the exact integer amount + fee; get_input_total returns the exact
\* amount + fee and is_balanced returns, neither of them aborting.
C16_NoOverflow ==
    /\ last.op = "create_shielded" =>
          /\ ~IsPanic(last.ret)
          /\ IsOk(last.ret) =>
                 CommittedAmount(last.ret.val.input_commitments[1]) =
                     last.amount + last.ret.val.fee
    /\ last.op = "get_input_total" =>
          /\ IsOk(last.ret)
          /\ last.ret.val = tx[1].amount + tx[1].fee
    /\ last.op = "is_balanced" => ~IsPanic(last.ret)

\* C14: verify_knowledge(commitment_hash, proof) and
\* verify_range_proof(proof, commitment_hash, min, max) never return an
\* error; each returns true exactly when both strings have length 64,
\* whatever min and max are.
C14_VerifiersCheckLengthOnly ==
    last.op \in {"verify_knowledge", "verify_range_proof"} =>
        /\ IsOk(last.ret)
        /\ last.ret.val =
               (last.commitment_hash.len = 64 /\ last.proof.len = 64)

C14_Witness ==
    /\ last.op = "verify_range_proof"
    /\ last.min > last.max
    /\ last.proof.len = 64
    /\ last.commitment_hash.len = 64
    /\ IsOk(last.ret)
    /\ last.ret.val = TRUE

\* C17: for every leaf data, proof and leaf index, verify_proof returns true
\* only if Hash("leaf:" || leaf_data) is one of the leaves; it returns false
\* for data never added, and false for every input on a tree without
\* leaves.
C17_AcceptedLeafIsMember ==
    last.op = "verify_proof" =>
        /\ IsOk(last.ret)
        /\ last.ret.val = TRUE =>
               \E i \in 1..Len(leaves) :
                   leaves[i] = Sha256Hex(<<"leaf:", last.leaf_data>>)
        /\ last.leaf_data = Distinct(leaves) => last.ret.val = FALSE
        /\ leaf_count = 0 => last.ret.val = FALSE

C17_Witness ==
    /\ last.op = "verify_proof"
    /\ leaf_count = 3
    /\ Len(last.proof) = 2
    /\ last.ret.val = TRUE
    /\ leaves[1] = Sha256Hex(<<"leaf:", last.leaf_data>>)

\* C18: verify_proof(leaf_data, proof, leaf_index) returns true only if
\* leaf_index < leaf_count and the leaf at leaf_index is
\* Hash("leaf:" || leaf_data): a proof accepted at one index is accepted at
\* no index that holds a different leaf or lies past the end of the tree.
C18_AcceptedAtItsIndexOnly ==
    (last.op = "verify_proof" /\ last.ret.val = TRUE) =>
        /\ last.leaf_index < leaf_count
        /\ leaves[last.leaf_index + 1] =
               Sha256Hex(<<"leaf:", last.leaf_data>>)

\* C19: in every state of the storage reached by add_transaction and clear
\* calls, the keys of transactions are exactly the entries of
\* merkle_leaves; rebuild_merkle_tree returns a tree with as many leaves as
\* merkle_leaves has entries, the leaf hashes of those entries in insertion
\* order; after clear both collections are empty and the rebuilt tree is
\* the empty tree.
C19_StorageConsistent ==
    /\ {id \in 0..(MaxIds - 1) : transactions[id + 1] # None} =
           {merkle_leaves[i] : i \in 1..Len(merkle_leaves)}
    /\ last.op = "clear" =>
           /\ merkle_leaves = <<>>
           /\ \A k \in 1..MaxIds : transactions[k] = None
    /\ last.op = "rebuild_merkle_tree" =>
           /\ last.ret[3] = Len(merkle_leaves)
           /\ Len(last.ret[4]) = Len(merkle_leaves)
           /\ \A i \in 1..Len(merkle_leaves) :
                  last.ret[4][i] = Sha256Hex(<<"leaf:", merkle_leaves[i]>>)
           /\ merkle_leaves = <<>> =>
                  last.ret = <<Zeros(64), 0, 0, <<>>>>

C19_Witness ==
    /\ last.op = "rebuild_merkle_tree"
    /\ Len(merkle_leaves) = 3
    /\ merkle_leaves[1] = merkle_leaves[3]
    /\ merkle_leaves[1] # merkle_leaves[2]
    /\ last.ret[3] = 3

\* C11: a reader calling root(), leaf_count() and height() while add_leaf
\* runs never observes an intermediate state of add_leaf: the root it
\* observes is the pairwise reduction of exactly the first leaf_count
\* leaves, for the leaf_count it observes with it, and the height it
\* observes is the height for that leaf_count.
C11_ReadersSeeNoIntermediateState ==
    /\ (observed[1] # None /\ observed[2] # None) =>
          LET count == observed[2][1]
          IN  /\ count <= Len(leaves)
              /\ observed[1][1] =
                     IF count = 0
                     THEN Zeros(64)
                     ELSE PairwiseReduction(SubSeq(leaves, 1, count))
    /\ (observed[2] # None /\ observed[3] # None) =>
          LET count == observed[2][1]
          IN  observed[3][1] = IF count <= 1 THEN 0 ELSE CeilLog2(count)
    /\ (observed[1] # None /\ observed[3] # None) =>
          \E count \in 0..Len(leaves) :
              /\ observed[3][1] = IF count <= 1 THEN 0 ELSE CeilLog2(count)
              /\ observed[1][1] =
                     IF count = 0
                     THEN Zeros(64)
                     ELSE PairwiseReduction(SubSeq(leaves, 1, count))

C11_Witness ==
    /\ reader_pc = "reading"
    /\ observed[1] # None
    /\ observed[2] = Some(3)
    /\ observed[3] = Some(2)
    /\ Len(leaves) = 3

====
